---------------------------- MODULE Spec2Model ----------------------------
(***************************************************************************)
(* Model of the movie recommender: the offline build (build_data.py), the  *)
(* poster pass (fetch_posters_no_api.py) and the serving process (app.py). *)
(*                                                                         *)
(* Conventions.  A Python str is a sequence of one-character strings.      *)
(* Rows are numbered from 1 (pandas numbers them from 0).  A cell of a     *)
(* data frame is a record [kind, val, text]: kind "num" (val the number), *)
(* "text" (text the characters), "nan" (a missing cell) or "none".         *)
(* Cosine similarities are fixed-point numbers in thousandths, the fused   *)
(* similarity is in ten-thousandths (4 * overview + 6 * metadata).         *)
(***************************************************************************)
EXTENDS Integers, Sequences, FiniteSets, TLC

(***************************************************************************)
(* Bounds of the model.                                                    *)
(***************************************************************************)
MaxRows == 2        \* rows of data/tmdb_5000_movies.csv
MaxQueryLen == 3    \* characters of a query typed by the user
MaxTopN == 2        \* topn of a direct call of a retriever
MaxBuilds == 2      \* runs of build_data.py

(***************************************************************************)
(* Python str operations.                                                  *)
(***************************************************************************)
RECURSIVE SeqsUpTo(_, _)
SeqsUpTo(S, n) ==
    IF n = 0 THEN {<< >>}
    ELSE LET shorter == SeqsUpTo(S, n - 1)
         IN  shorter \cup {Append(s, c) : s \in {t \in shorter : Len(t) = n - 1}, c \in S}

Range(s) == {s[i] : i \in DOMAIN s}

\* Body applied to the value of v, v evaluated once
With(v, Body(_)) == CHOOSE r \in {Body(val) : val \in {v}} : TRUE

Min2(a, b) == IF a <= b THEN a ELSE b

\* ord(c) for the characters the model uses
CharCode(c) ==
    CASE c = " " -> 32 [] c = "-" -> 45 [] c = "1" -> 49 [] c = "9" -> 57
      [] c = ":" -> 58 [] c = "A" -> 65 [] c = "R" -> 82 [] c = "S" -> 83
      [] c = "W" -> 87 [] c = "[" -> 91 [] c = "]" -> 93
      [] c = "a" -> 97 [] c = "e" -> 101 [] c = "m" -> 109 [] c = "n" -> 110
      [] c = "r" -> 114 [] c = "s" -> 115 [] c = "w" -> 119
      [] c = "{" -> 123 [] c = "}" -> 125 [] OTHER -> 63

\* str.lower() on one character
LowerChar(c) ==
    CASE c = "A" -> "a" [] c = "R" -> "r" [] c = "S" -> "s" [] c = "W" -> "w"
      [] OTHER -> c

\* str.lower()
Lower(s) == [i \in DOMAIN s |-> LowerChar(s[i])]

\* str.strip(): the leading and the trailing whitespace removed
Strip(s) ==
    LET keep == {i \in DOMAIN s : s[i] # " "}
    IN  IF keep = {} THEN << >>
        ELSE LET lo == CHOOSE i \in keep : \A j \in keep : i <= j
                 hi == CHOOSE i \in keep : \A j \in keep : i >= j
             IN  SubSeq(s, lo, hi)

\* needle in hay (str.contains with a pattern of letters and spaces, which the
\* regular-expression engine matches literally)
Contains(hay, needle) ==
    \E i \in 1..(Len(hay) - Len(needle) + 1) :
        SubSeq(hay, i, i + Len(needle) - 1) = needle

\* s < t for two Python strs (by code point, a proper prefix first)
RECURSIVE StrLess(_, _)
StrLess(s, t) ==
    IF t = << >> THEN FALSE
    ELSE IF s = << >> THEN TRUE
    ELSE IF s[1] # t[1] THEN CharCode(s[1]) < CharCode(t[1])
    ELSE StrLess(Tail(s), Tail(t))

\* str.split(sep)[0]
SplitFirst(s, sep) ==
    LET at == {i \in DOMAIN s : s[i] = sep}
    IN  IF at = {} THEN s
        ELSE SubSeq(s, 1, (CHOOSE i \in at : \A j \in at : i <= j) - 1)

(***************************************************************************)
(* difflib.SequenceMatcher and difflib.get_close_matches, as called on     *)
(* lines 67 and 71 of app.py (no junk; the auto-junk heuristic needs 200   *)
(* characters).                                                            *)
(***************************************************************************)
\* the length of the common run of a from i and b from j, within the bounds
RECURSIVE RunLen(_, _, _, _, _, _)
RunLen(a, b, i, j, ahi, bhi) ==
    IF i <= ahi /\ j <= bhi /\ a[i] = b[j]
    THEN 1 + RunLen(a, b, i + 1, j + 1, ahi, bhi)
    ELSE 0

\* find_longest_match on a[alo..ahi], b[blo..bhi]: the longest block, of those
\* the one that starts earliest in a, of those the one that starts earliest in b
FindLongestMatch(a, b, alo, ahi, blo, bhi) ==
    With({<<i, j, RunLen(a, b, i, j, ahi, bhi)>> : i \in alo..ahi, j \in blo..bhi},
         LAMBDA blocks :
            IF \A m \in blocks : m[3] = 0 THEN <<alo, blo, 0>>
            ELSE CHOOSE m \in blocks :
                    \A r \in blocks :
                        \/ m[3] > r[3]
                        \/ m[3] = r[3] /\ m[1] < r[1]
                        \/ m[3] = r[3] /\ m[1] = r[1] /\ m[2] <= r[2])

\* the characters get_matching_blocks matches
RECURSIVE MatchCount(_, _, _, _, _, _)
MatchCount(a, b, alo, ahi, blo, bhi) ==
    IF alo > ahi \/ blo > bhi THEN 0
    ELSE With(FindLongestMatch(a, b, alo, ahi, blo, bhi),
              LAMBDA m :
                 IF m[3] = 0 THEN 0
                 ELSE m[3]
                      + MatchCount(a, b, alo, m[1] - 1, blo, m[2] - 1)
                      + MatchCount(a, b, m[1] + m[3], ahi, m[2] + m[3], bhi))

\* SequenceMatcher.ratio() = 2.0 * matches / (len(a) + len(b)), 1.0 for two empty
\* strs, as the fraction <<numerator, denominator>>
Ratio(a, b) ==
    IF Len(a) + Len(b) = 0 THEN <<1, 1>>
    ELSE <<2 * MatchCount(a, b, 1, Len(a), 1, Len(b)), Len(a) + Len(b)>>

\* real_quick_ratio(): an upper bound from the lengths
RealQuickRatio(a, b) ==
    IF Len(a) + Len(b) = 0 THEN <<1, 1>>
    ELSE <<2 * Min2(Len(a), Len(b)), Len(a) + Len(b)>>

\* quick_ratio(): an upper bound from the characters in common, order ignored
QuickRatio(a, b) ==
    LET cnt(s, c) == Cardinality({i \in DOMAIN s : s[i] = c})
        chars == Range(a) \cap Range(b)
        RECURSIVE Sum(_)
        Sum(S) == IF S = {} THEN 0
                  ELSE LET c == CHOOSE c \in S : TRUE
                       IN  Min2(cnt(a, c), cnt(b, c)) + Sum(S \ {c})
    IN  IF Len(a) + Len(b) = 0 THEN <<1, 1>>
        ELSE <<2 * Sum(chars), Len(a) + Len(b)>>

CutoffNum == 65     \* cutoff=0.65, in hundredths
CutoffDen == 100
CloseN == 5         \* n=5

\* a cutoff of 0.4 in place of 0.65
AtLeastCutoff_low(r) == r[1] * 10 >= 4 * r[2]

\* fraction r >= cutoff
AtLeastCutoff(r) == r[1] * CutoffDen >= CutoffNum * r[2]

\* fractions r < s
FracLess(r, s) == r[1] * s[2] < s[1] * r[2]

\* (score, x) < (score', x'), the order of heapq.nlargest
ScoredLess(p, q) ==
    \/ FracLess(p[1], q[1])
    \/ ~FracLess(q[1], p[1]) /\ StrLess(p[2], q[2])

\* the n largest of a list of (score, x), largest first
RECURSIVE NLargest(_, _)
NLargest(n, result) ==
    IF n = 0 \/ result = << >> THEN << >>
    ELSE With(CHOOSE i \in DOMAIN result :
                 \A j \in DOMAIN result : ~ScoredLess(result[i], result[j]),
              LAMBDA i :
                 With(SubSeq(result, 1, i - 1) \o SubSeq(result, i + 1, Len(result)),
                      LAMBDA rest : <<result[i]>> \o NLargest(n - 1, rest)))

\* difflib.get_close_matches(word, possibilities, n, cutoff)
RECURSIVE Scored(_, _)
Scored(word, possibilities) ==
    IF possibilities = << >> THEN << >>
    ELSE LET x == Head(possibilities)
         IN  With(Ratio(x, word),
                  LAMBDA ratio :
                     IF /\ AtLeastCutoff(RealQuickRatio(x, word))
                        /\ AtLeastCutoff(QuickRatio(x, word))
                        /\ AtLeastCutoff(ratio)
                     THEN << <<ratio, x>> >> ELSE << >>)
             \o Scored(word, Tail(possibilities))

GetCloseMatches(word, possibilities) ==
    With(With(Scored(word, possibilities), LAMBDA result : NLargest(CloseN, result)),
         LAMBDA top : [i \in DOMAIN top |-> top[i][2]])

(***************************************************************************)
(* The input files.  data/tmdb_5000_movies.csv has one row per movie:      *)
(* title, overview (nan when the cell is empty), genres and keywords (each *)
(* a JSON list of {"name": ...}; broken when the text does not parse),     *)
(* popularity, id, vote_average (in hundredths), release_date.             *)
(* data/tmdb_5000_credits.csv has title, cast, crew.                       *)
(***************************************************************************)
Num(n) == [kind |-> "num", val |-> n, text |-> << >>]
Text(t) == [kind |-> "text", val |-> 0, text |-> t]
NaN == [kind |-> "nan", val |-> 0, text |-> << >>]
None == [kind |-> "none", val |-> 0, text |-> << >>]

Json(names, broken) == [names |-> names, broken |-> broken]
Entry(name, job) == [has_name |-> TRUE, name |-> name, job |-> job]

t_war == <<"w", "a", "r">>
t_War == <<"W", "a", "r">>
t_raw == <<"r", "a", "w">>
t_wars == <<"w", "a", "r", "s">>
date99 == <<"1", "9", "9", "9", "-", "1", "1">>

MovieRow(title, overview, genres, keywords, popularity, id, vote, release) ==
    [title |-> title, overview |-> overview, genres |-> genres,
     keywords |-> keywords, popularity |-> popularity, id |-> id,
     vote_average |-> vote, release_date |-> release]

MoviePool ==
    { MovieRow(t_war, Text(<<"r", "a", "w", " ", "w", "a", "r">>),
               Json(<<t_War>>, FALSE), Json(<<t_raw>>, FALSE), 3, 1,
               Num(725), Text(date99)),
      MovieRow(t_War, NaN,
               Json(<<t_War>>, FALSE), Json(<< >>, FALSE), 5, 2,
               Num(650), Text(date99)),
      MovieRow(t_raw, Text(<<"r", "a", "w", " ", "w", "a", "r">>),
               Json(<<t_War>>, FALSE), Json(<<t_raw>>, FALSE), 1, 3,
               NaN, NaN),
      MovieRow(t_wars, Text(<<"w", "a", "s">>),
               Json(<<t_War>>, TRUE), Json(<< >>, FALSE), 2, 4,
               Num(800), Text(<< >>)) }

CreditRow(title, cast, crew) == [title |-> title, cast |-> cast, crew |-> crew]

n_Sara == <<"S", "a", "r", "a">>
n_AsaWars == <<"A", "s", "a", " ", "W", "a", "r", "s">>
Director == <<"D", "i", "r", "e", "c", "t", "o", "r">>

c_war == CreditRow(t_war, Json(<<Entry(n_Sara, << >>)>>, FALSE),
                   Json(<<Entry(n_Sara, <<"W", "r", "i", "t", "e", "r">>),
                          Entry(n_AsaWars, Director)>>, FALSE))
c_War == CreditRow(t_War, Json(<<Entry(n_AsaWars, << >>), Entry(n_Sara, << >>)>>, FALSE),
                   Json(<< >>, FALSE))
c_raw == [c_war EXCEPT !.title = t_raw]
c_wars == CreditRow(t_wars, Json(<< >>, FALSE), Json(<< >>, TRUE))
c_war2 == CreditRow(t_war, Json(<<Entry(n_AsaWars, << >>)>>, FALSE),
                    Json(<< >>, FALSE))

\* the credits files the model draws from: one row per title; a title twice and
\* a title without a row
CreditTables ==
    { <<c_war, c_War, c_raw, c_wars>>,
      <<c_war, c_raw, c_war2, c_wars>> }

MovieTables == SeqsUpTo(MoviePool, MaxRows) \ {<< >>}

Inputs == [movies : MovieTables, credits : CreditTables]

(***************************************************************************)
(* build_data.py                                                           *)
(***************************************************************************)
\* movies.merge(credits, on="title"): an inner join, in the order of the left rows
RECURSIVE MergeInner(_, _)
MergeInner(left, right) ==
    IF left = << >> THEN << >>
    ELSE LET l == Head(left)
             hits == SelectSeq(right, LAMBDA r : r.title = l.title)
         IN  [k \in DOMAIN hits |->
                 [title |-> l.title, overview |-> l.overview, genres |-> l.genres,
                  keywords |-> l.keywords, popularity |-> l.popularity, id |-> l.id,
                  vote_average |-> l.vote_average, release_date |-> l.release_date,
                  cast |-> hits[k].cast, crew |-> hits[k].crew]]
             \o MergeInner(Tail(left), right)

\* parse(text): ast.literal_eval, [] when the text does not parse
parse(cell) == IF cell.broken THEN << >> ELSE cell.names

\* name.replace(" ", "")
RemoveSpaces(name) == SelectSeq(name, LAMBDA c : c # " ")

get_names(arr) ==
    LET named == SelectSeq(arr, LAMBDA i : i.has_name)
    IN  [k \in DOMAIN named |-> RemoveSpaces(named[k].name)]

CastCap == 5

get_cast(arr) ==
    LET first == SubSeq(arr, 1, Min2(Len(arr), CastCap))
        named == SelectSeq(first, LAMBDA i : i.has_name)
    IN  [k \in DOMAIN named |-> RemoveSpaces(named[k].name)]

get_director(arr) ==
    LET at == {k \in DOMAIN arr : arr[k].job = Director}
    IN  IF at = {} THEN << >>
        ELSE RemoveSpaces(arr[CHOOSE k \in at : \A j \in at : k <= j].name)

\* " ".join(list)
RECURSIVE Join(_)
Join(list) ==
    IF list = << >> THEN << >>
    ELSE IF Len(list) = 1 THEN list[1]
    ELSE list[1] \o <<" ">> \o Join(Tail(list))

\* a genre or keyword of the csv as a cast-like entry with a name
Named(names) == [k \in DOMAIN names |-> Entry(names[k], << >>)]

\* movies["overview"].fillna("")
FillNa(cell) == IF cell.kind = "nan" THEN << >> ELSE cell.text

make_soup(row) ==
    row.overview \o <<" ">> \o Join(row.genres_list) \o <<" ">>
    \o Join(row.keywords_list) \o <<" ">> \o Join(row.cast_list) \o <<" ">>
    \o row.director

\* lines 36-53: the feature columns of one merged row
ExtractFeatures(r) ==
    LET f == [title |-> r.title, id |-> r.id,
              genres_list |-> get_names(Named(parse(r.genres))),
              keywords_list |-> get_names(Named(parse(r.keywords))),
              cast_list |-> get_cast(parse(r.cast)),
              director |-> get_director(parse(r.crew)),
              overview |-> FillNa(r.overview)]
    IN  [title |-> f.title, id |-> f.id, overview |-> f.overview,
         soup |-> make_soup(f)]

(***************************************************************************)
(* The vectorizers and cosine_similarity of scikit-learn, as configured on *)
(* lines 56-65: lowercase, tokens of two or more word characters, the      *)
(* English stop words removed, at most max_features terms.                 *)
(***************************************************************************)
IsWordChar(c) == c \notin {" ", "-", ":", "[", "]", "{", "}"}

\* the tokens of a text, in order
RECURSIVE Tokens(_, _)
Tokens(text, cur) ==
    LET flush == IF Len(cur) >= 2 THEN <<cur>> ELSE << >>
    IN  IF text = << >> THEN flush
        ELSE IF IsWordChar(text[1])
             THEN Tokens(Tail(text), Append(cur, LowerChar(text[1])))
             ELSE flush \o Tokens(Tail(text), << >>)

\* the English stop words that can be written with the model's letters
StopWords == { <<"a", "s">>, <<"w", "a", "s">> }

Analyze(text) == SelectSeq(Tokens(text, << >>), LAMBDA t : t \notin StopWords)

MaxFeatures == 5000

\* the vocabulary of a corpus of analyzed documents (it never exceeds
\* max_features within the bounds of the model)
Vocabulary(docs) == UNION {Range(docs[i]) : i \in DOMAIN docs}

TermCount(doc, t) == Cardinality({k \in DOMAIN doc : doc[k] = t})

DocFreq(docs, t) == Cardinality({i \in DOMAIN docs : t \in Range(docs[i])})

\* 10 * (ln((1 + n) / (1 + df)) + 1), rounded: smooth idf, n documents
IdfTable ==
    << <<10>>,
       <<14, 10>>,
       <<17, 13, 10>>,
       <<19, 15, 12, 10>>,
       <<21, 17, 14, 12, 10>>,
       <<23, 18, 16, 13, 12, 10>>,
       <<24, 20, 17, 15, 13, 11, 10>>,
       <<25, 21, 18, 16, 14, 13, 11, 10>> >>

Idf(n, df) == IdfTable[n][df]

\* CountVectorizer.fit_transform: row i maps each term to its count
CountMatrix(docs) ==
    [i \in DOMAIN docs |-> [t \in Vocabulary(docs) |-> TermCount(docs[i], t)]]

\* TfidfVectorizer.fit_transform: row i maps each term to tf * idf
TfidfMatrix(docs) ==
    [i \in DOMAIN docs |->
        [t \in Vocabulary(docs) |->
            TermCount(docs[i], t) * Idf(Len(docs), DocFreq(docs, t))]]

Dot(u, v) ==
    LET RECURSIVE DotOver(_)
        DotOver(terms) ==
            IF terms = {} THEN 0
            ELSE LET t == CHOOSE t \in terms : TRUE
                 IN  u[t] * v[t] + DotOver(terms \ {t})
    IN  DotOver(DOMAIN u)

\* the least r with r * r >= x
CeilSqrt(x) ==
    LET RECURSIVE CeilSqrtIn(_, _)
        CeilSqrtIn(lo, hi) ==
            IF lo >= hi THEN lo
            ELSE LET mid == (lo + hi) \div 2
                 IN  IF mid * mid >= x THEN CeilSqrtIn(lo, mid)
                     ELSE CeilSqrtIn(mid + 1, hi)
    IN  CeilSqrtIn(0, Min2(x, 46340))

\* a cosine that gives a row of zeros the similarity 1 to itself
Cosine_self_is_one(u, v) ==
    IF Dot(u, u) = 0 \/ Dot(v, v) = 0 THEN (IF u = v THEN 1000 ELSE 0)
    ELSE (1000 * Dot(u, v)) \div CeilSqrt(Dot(u, u) * Dot(v, v))

\* the cosine of two rows in thousandths, rounded down; a row of zeros is left
\* as it is by the normalisation, so its cosine with every row is 0
Cosine(u, v) ==
    LET nu == Dot(u, u)
        nv == Dot(v, v)
    IN  IF nu = 0 \/ nv = 0 THEN 0
        ELSE (1000 * Dot(u, v)) \div CeilSqrt(nu * nv)

cosine_similarity(matrix) ==
    [i \in DOMAIN matrix |-> [j \in DOMAIN matrix |-> Cosine(matrix[i], matrix[j])]]

WeightOverview == 4     \* 0.4, in tenths
WeightMeta == 6         \* 0.6, in tenths

\* line 68: SIM = 0.4 * sim_overview + 0.6 * sim_meta, in ten-thousandths
Fuse(sim_overview, sim_meta) ==
    [i \in DOMAIN sim_overview |->
        [j \in DOMAIN sim_overview |->
            WeightOverview * sim_overview[i][j] + WeightMeta * sim_meta[i][j]]]

\* the documents the two vectorizers are fitted on
OverviewDocs(rows) == [i \in DOMAIN rows |-> Analyze(rows[i].overview)]
SoupDocs(rows) == [i \in DOMAIN rows |-> Analyze(rows[i].soup)]

\* fit_transform raises ValueError on an empty vocabulary
VectorizeRaises(rows) ==
    \/ Vocabulary(OverviewDocs(rows)) = {}
    \/ Vocabulary(SoupDocs(rows)) = {}

ComputeSIM(rows) ==
    Fuse(cosine_similarity(TfidfMatrix(OverviewDocs(rows))),
         cosine_similarity(CountMatrix(SoupDocs(rows))))

\* Series.drop_duplicates(): the entries whose VALUE occurred before are dropped
DropDuplicates(series) ==
    LET keep == {k \in DOMAIN series :
                    \A j \in 1..(k - 1) : series[j].value # series[k].value}
        RECURSIVE Pick(_)
        Pick(k) == IF k > Len(series) THEN << >>
                   ELSE (IF k \in keep THEN <<series[k]>> ELSE << >>) \o Pick(k + 1)
    IN  Pick(1)

\* line 72: pd.Series(movies.index, index=movies["title"]).drop_duplicates()
BuildIndices(rows) ==
    DropDuplicates([i \in DOMAIN rows |-> [key |-> rows[i].title, value |-> i]])

\* lines 78-89: movies[["title", "poster_path", "id"]], poster_path made empty
\* because the csv has no such column (a row keeps a poster_url field, read only
\* when the table has that column)
SavedColumns(rows) ==
    [i \in DOMAIN rows |-> [title |-> rows[i].title, id |-> rows[i].id,
                            poster_path |-> << >>, poster_url |-> << >>]]

(***************************************************************************)
(* app.py: the data frames built when the process starts (lines 25-45).    *)
(* A row of a data frame is a function from its column names to cells.     *)
(***************************************************************************)
\* astype(str) of a cell
AsStr(cell) ==
    CASE cell.kind = "text" -> cell.text
      [] cell.kind = "nan" -> <<"n", "a", "n">>
      [] OTHER -> << >>

\* the text of a JSON list cell of the csv: [{name: War}, {name: raw}]; a
\* broken cell lacks the closing bracket
RECURSIVE JsonItems(_)
JsonItems(names) ==
    IF names = << >> THEN << >>
    ELSE <<"{", "n", "a", "m", "e", ":", " ">> \o names[1] \o <<"}">>
         \o (IF Len(names) > 1 THEN <<" ">> ELSE << >>) \o JsonItems(Tail(names))

RawJson(cell) ==
    <<"[">> \o JsonItems(cell.names) \o (IF cell.broken THEN << >> ELSE <<"]">>)

\* lines 25-29: meta = pd.read_csv(TMDB_CSV), the title stripped, title_lc added
ReadMeta(csv_movies) ==
    [i \in DOMAIN csv_movies |->
        LET r == csv_movies[i]
        IN  [title |-> Strip(r.title), title_lc |-> Lower(Strip(r.title)),
             overview |-> r.overview, genres |-> RawJson(r.genres),
             keywords |-> RawJson(r.keywords), popularity |-> r.popularity,
             id |-> Num(r.id), vote_average |-> r.vote_average,
             release_date |-> r.release_date]]

\* lines 39-40: meta_small, the first row of every title
MetaSmall(meta) ==
    SelectSeq([i \in DOMAIN meta |-> [row |-> meta[i], at |-> i]],
              LAMBDA e : \A j \in 1..(e.at - 1) : meta[j].title # e.row.title)

\* line 41: movies_full = movies_posters.merge(meta_small, on='title', how='left',
\* suffixes=('', '_meta'))
MoviesFull(movies_posters, meta) ==
    LET small == MetaSmall(meta)
    IN  [i \in DOMAIN movies_posters |->
            LET p == movies_posters[i]
                hit == SelectSeq(small, LAMBDA e : e.row.title = p.title)
                base == [title |-> Text(p.title), poster_url |-> Text(p.poster_url),
                         id |-> Num(p.id)]
            IN  IF hit = << >>
                THEN base @@ [overview |-> NaN, vote_average |-> NaN,
                              release_date |-> NaN, id_meta |-> NaN]
                ELSE base @@ [overview |-> hit[1].row.overview,
                              vote_average |-> hit[1].row.vote_average,
                              release_date |-> hit[1].row.release_date,
                              id_meta |-> hit[1].row.id]]

\* line 44
AllTitles(movies_posters) == [i \in DOMAIN movies_posters |-> movies_posters[i].title]

\* line 45: {t.lower(): t for t in all_titles}, a later title replacing an earlier
LowerToTitle(all_titles) ==
    [low \in {Lower(all_titles[i]) : i \in DOMAIN all_titles} |->
        LET at == {i \in DOMAIN all_titles : Lower(all_titles[i]) = low}
        IN  all_titles[CHOOSE i \in at : \A j \in at : i >= j]]

GENRES ==
    { <<"a", "c", "t", "i", "o", "n">>,
      <<"h", "o", "r", "r", "o", "r">>,
      <<"r", "o", "m", "a", "n", "c", "e">>,
      <<"t", "h", "r", "i", "l", "l", "e", "r">>,
      <<"c", "r", "i", "m", "e">>,
      <<"c", "o", "m", "e", "d", "y">>,
      <<"a", "d", "v", "e", "n", "t", "u", "r", "e">>,
      <<"a", "n", "i", "m", "a", "t", "i", "o", "n">>,
      <<"d", "r", "a", "m", "a">>,
      <<"f", "a", "n", "t", "a", "s", "y">>,
      <<"s", "c", "i", "-", "f", "i">>,
      <<"s", "c", "i", "f", "i">>,
      <<"f", "a", "m", "i", "l", "y">>,
      <<"m", "y", "s", "t", "e", "r", "y">>,
      <<"w", "a", "r">>,
      <<"w", "e", "s", "t", "e", "r", "n">>,
      <<"d", "o", "c", "u", "m", "e", "n", "t", "a", "r", "y">>,
      <<"m", "u", "s", "i", "c", "a", "l">>,
      <<"b", "i", "o", "g", "r", "a", "p", "h", "y">>,
      <<"h", "i", "s", "t", "o", "r", "y">> }

(***************************************************************************)
(* app.py: find_best_title (lines 54-75).  The result is <<title, method>>, *)
(* the title a cell (None, or the text).                                   *)
(***************************************************************************)
\* q in indices: q is a label of the Series
InIndex(indices, q) == \E k \in DOMAIN indices : indices[k].key = q

\* lines 70-75: the fuzzy match on the lowercased titles
FuzzyLower(all_titles, lower_to_title, low) ==
    With(GetCloseMatches(low, [i \in DOMAIN all_titles |-> Lower(all_titles[i])]),
         LAMBDA matches :
            IF matches # << >>
            THEN <<(IF matches[1] \in DOMAIN lower_to_title
                    THEN Text(lower_to_title[matches[1]]) ELSE None),
                   "fuzzy-lower">>
            ELSE <<None, "None">>)

\* lines 66-69: the fuzzy match on the titles as stored
Fuzzy(all_titles, lower_to_title, q, low) ==
    With(GetCloseMatches(q, all_titles),
         LAMBDA matches :
            IF matches # << >> THEN <<Text(matches[1]), "fuzzy">>
            ELSE FuzzyLower(all_titles, lower_to_title, low))

\* the case-insensitive stage tried before the exact stage
find_best_title_case_first(indices, all_titles, lower_to_title, query) ==
    IF query = << >> THEN <<None, "None">>
    ELSE With(Strip(query),
              LAMBDA q :
                 With(Lower(q),
                      LAMBDA low :
                         IF low \in DOMAIN lower_to_title
                         THEN <<Text(lower_to_title[low]), "case-insensitive">>
                         ELSE IF InIndex(indices, q) THEN <<Text(q), "exact">>
                         ELSE Fuzzy(all_titles, lower_to_title, q, low)))

find_best_title(indices, all_titles, lower_to_title, query) ==
    IF query = << >> THEN <<None, "None">>
    ELSE With(Strip(query),
              LAMBDA q :
                 With(Lower(q),
                      LAMBDA low :
                         IF InIndex(indices, q) THEN <<Text(q), "exact">>
                         ELSE IF low \in DOMAIN lower_to_title
                              THEN <<Text(lower_to_title[low]), "case-insensitive">>
                         ELSE Fuzzy(all_titles, lower_to_title, q, low)))

(***************************************************************************)
(* app.py: format_movie_record (lines 77-115).                             *)
(***************************************************************************)
\* row.get(col): None when the row has no such column
Get(row, col) == IF col \in DOMAIN row THEN row[col] ELSE None

\* bool(cell): nan is true
Truthy(cell) ==
    CASE cell.kind = "none" -> FALSE
      [] cell.kind = "nan" -> TRUE
      [] cell.kind = "num" -> cell.val # 0
      [] OTHER -> cell.text # << >>

\* a or b
Or(a, b) == IF Truthy(a) THEN a ELSE b

\* pd.isna(cell)
IsNa(cell) == cell.kind \in {"none", "nan"}

Digits == {"1", "9"}

IsNumeral(t) == Strip(t) # << >> /\ \A i \in DOMAIN Strip(t) : Strip(t)[i] \in Digits

RECURSIVE NumeralVal(_)
NumeralVal(t) ==
    IF t = << >> THEN 0 ELSE 10 * NumeralVal(SubSeq(t, 1, Len(t) - 1)) 
                         + (IF t[Len(t)] = "1" THEN 1 ELSE 9)

\* int(cell) raises for nan, None and a text that is no numeral
IntRaises(cell) ==
    \/ cell.kind \in {"nan", "none"}
    \/ cell.kind = "text" /\ ~IsNumeral(cell.text)

IntOf(cell) == IF cell.kind = "num" THEN cell.val ELSE NumeralVal(Strip(cell.text))

\* float(cell) raises for None and a text that is no numeral; float(nan) is nan
FloatRaises(cell) ==
    \/ cell.kind = "none"
    \/ cell.kind = "text" /\ ~IsNumeral(cell.text)

\* round(x, 1) of a number given in hundredths, in tenths: to the nearest, a
\* tie to the even tenth (the hundredths of the model are exact in binary)
RoundTenths(h) ==
    LET t == h \div 10
        r == h % 10
    IN  IF r < 5 THEN t
        ELSE IF r > 5 THEN t + 1
        ELSE IF t % 2 = 0 THEN t ELSE t + 1

\* round(float(cell), 1): nan stays nan
Rating(cell) ==
    IF FloatRaises(cell) THEN None
    ELSE IF cell.kind = "nan" THEN NaN
    ELSE IF cell.kind = "num" THEN Num(RoundTenths(cell.val))
    ELSE Num(RoundTenths(100 * NumeralVal(Strip(cell.text))))

\* tmdb_id not in (None, "", float('nan')): a nan is not equal to another nan
NotBlankId(cell) == ~(cell.kind = "none" \/ (cell.kind = "text" /\ cell.text = << >>))

OverviewCap == 200

\* s.rsplit(' ', 1)[0]
BeforeLastSpace(s) ==
    LET at == {i \in DOMAIN s : s[i] = " "}
    IN  IF at = {} THEN s
        ELSE SubSeq(s, 1, (CHOOSE i \in at : \A j \in at : i >= j) - 1)

Ellipsis == "..."

format_movie_record(row) ==
    LET title == Get(row, "title")
        poster_url == Or(Get(row, "poster_url"), Text(<< >>))
        id0 == IF "id" \in DOMAIN row THEN Get(row, "id") ELSE None
        tmdb_id == IF IsNa(id0) /\ "id_meta" \in DOMAIN row
                   THEN Get(row, "id_meta") ELSE id0
        tmdb_link == IF NotBlankId(tmdb_id) /\ ~IntRaises(tmdb_id)
                     THEN Num(IntOf(tmdb_id)) ELSE Text(<< >>)
        overview == Or(Get(row, "overview"), Text(<< >>))
        \* len(overview) of a nan raises TypeError
        len_raises == Truthy(overview) /\ overview.kind # "text"
        short_overview ==
            IF overview.kind = "text" /\ Len(overview.text) > OverviewCap
            THEN Text(Append(BeforeLastSpace(SubSeq(overview.text, 1, OverviewCap)),
                             Ellipsis))
            ELSE overview
        rating == IF "vote_average" \in DOMAIN row
                  THEN Rating(Get(row, "vote_average"))
                  ELSE IF "vote_average_meta" \in DOMAIN row
                       THEN Rating(Get(row, "vote_average_meta"))
                       ELSE None
        release_date == Or(Or(Get(row, "release_date"), Get(row, "release_date_meta")),
                           Text(<< >>))
        year == IF release_date.kind = "text" /\ Strip(release_date.text) # << >>
                THEN Text(SplitFirst(release_date.text, "-")) ELSE Text(<< >>)
        \* line 114: int(tmdb_id) outside any try
        id_raises == NotBlankId(tmdb_id) /\ IntRaises(tmdb_id)
    IN  IF len_raises \/ id_raises
        THEN [raised |-> TRUE, title |-> None, poster_url |-> None, tmdb_link |-> None,
              overview |-> None, rating |-> None, year |-> None, id |-> None]
        ELSE [raised |-> FALSE, title |-> title, poster_url |-> poster_url,
              tmdb_link |-> tmdb_link, overview |-> short_overview, rating |-> rating,
              year |-> year,
              id |-> IF NotBlankId(tmdb_id) THEN Num(IntOf(tmdb_id)) ELSE None]

\* [format_movie_record(r) for r in rows]: the first row that raises ends the loop
FormatAll(rows) ==
    LET recs == [i \in DOMAIN rows |-> format_movie_record(rows[i])]
    IN  IF \E i \in DOMAIN recs : recs[i].raised
        THEN [raised |-> TRUE, records |-> << >>]
        ELSE [raised |-> FALSE, records |-> recs]

(***************************************************************************)
(* app.py: title_recommend (lines 117-128) and keyword_search (131-159).   *)
(* A result is [raised, rows, records]: rows are the row numbers the       *)
(* records were formatted from.                                            *)
(***************************************************************************)
Returned(rows, formatted) ==
    [raised |-> formatted.raised,
     rows |-> IF formatted.raised THEN << >> ELSE rows,
     records |-> formatted.records]

Raised == [raised |-> TRUE, rows |-> << >>, records |-> << >>]
Empty == [raised |-> FALSE, rows |-> << >>, records |-> << >>]

\* sorted(scores, key=lambda x: x[1], reverse=True): a stable sort, equal scores
\* keep their order
RECURSIVE SortedDesc(_)
SortedDesc(scores) ==
    IF scores = << >> THEN << >>
    ELSE With(CHOOSE i \in DOMAIN scores :
                 /\ \A j \in DOMAIN scores : scores[i][2] >= scores[j][2]
                 /\ \A j \in 1..(i - 1) : scores[j][2] < scores[i][2],
              LAMBDA i :
                 With(SubSeq(scores, 1, i - 1) \o SubSeq(scores, i + 1, Len(scores)),
                      LAMBDA rest : <<scores[i]>> \o SortedDesc(rest)))

\* scores[1: topn + 1]
SkipFirst(scores, topn) == SubSeq(scores, 2, Min2(Len(scores), topn + 1))

\* lines 122-128, idx one row of the matrix
RecommendFor(sim_matrix, movies_full, idx, topn) ==
    With(SortedDesc([j \in DOMAIN sim_matrix[idx] |-> <<j, sim_matrix[idx][j]>>] \o << >>),
         LAMBDA scores :
            With(SkipFirst(scores, topn),
                 LAMBDA top :
                    With([k \in DOMAIN top |-> top[k][1]] \o << >>,
                         LAMBDA movie_indices :
                            Returned(movie_indices,
                                     FormatAll([k \in DOMAIN movie_indices |->
                                                   movies_full[movie_indices[k]]])))))

title_recommend(sim_matrix, indices, movies_full, best_title, topn) ==
    With(SelectSeq(indices, LAMBDA e : e.key = best_title),
         LAMBDA found :
            IF found = << >> THEN Empty
            \* indices[best_title] of a label that occurs twice is a Series of
            \* rows; sorted() then compares two arrays, which raises ValueError
            ELSE IF Len(found) > 1 THEN Raised
            ELSE RecommendFor(sim_matrix, movies_full, found[1].value, topn))

\* matches.sort_values(by='popularity', ascending=False)
RECURSIVE SortByPopularity(_)
SortByPopularity(matches) ==
    IF matches = << >> THEN << >>
    ELSE With(CHOOSE i \in DOMAIN matches :
                 /\ \A j \in DOMAIN matches :
                        matches[i].row.popularity >= matches[j].row.popularity
                 /\ \A j \in 1..(i - 1) :
                        matches[j].row.popularity < matches[i].row.popularity,
              LAMBDA i :
                 With(SubSeq(matches, 1, i - 1) \o SubSeq(matches, i + 1, Len(matches)),
                      LAMBDA rest : <<matches[i]>> \o SortByPopularity(rest)))

\* matches.head(topn)
HeadN(matches, topn) == SubSeq(matches, 1, Min2(Len(matches), topn))

\* lines 150-155: matches.merge(movies_full[...], on='title', how='left',
\* suffixes=('_meta', '')): one row per row of movies_full with the title, one
\* row of nan cells when there is none
RECURSIVE MergeLeft(_, _)
MergeLeft(matches, movies_full) ==
    IF matches = << >> THEN << >>
    ELSE LET m == Head(matches)
             left == [title |-> Text(m.row.title), overview_meta |-> m.row.overview,
                      id_meta |-> m.row.id, vote_average_meta |-> m.row.vote_average,
                      release_date_meta |-> m.row.release_date]
         IN  With(SelectSeq(movies_full, LAMBDA f : f.title = Text(m.row.title)),
                  LAMBDA hits :
                     IF hits = << >>
                     THEN << [at |-> m.at,
                              row |-> left @@ [poster_url |-> NaN, id |-> NaN,
                                               overview |-> NaN, vote_average |-> NaN,
                                               release_date |-> NaN]] >>
                     ELSE [k \in DOMAIN hits |->
                              [at |-> m.at,
                               row |-> left @@ [poster_url |-> hits[k].poster_url,
                                                id |-> hits[k].id,
                                                overview |-> hits[k].overview,
                                                vote_average |-> hits[k].vote_average,
                                                release_date |-> hits[k].release_date]]])
             \o MergeLeft(Tail(matches), movies_full)

\* lines 136-141: the rows of meta one of whose fields contains q
Mask(meta, q) ==
    SelectSeq([i \in DOMAIN meta |-> [row |-> meta[i], at |-> i]],
              LAMBDA e : \/ Contains(Lower(e.row.genres), q)
                         \/ Contains(Lower(e.row.keywords), q)
                         \/ Contains(Lower(AsStr(e.row.overview)), q)
                         \/ Contains(e.row.title_lc, q))

\* lines 145-159
RankAndJoin(matches, movies_full, topn) ==
    With(SortByPopularity(matches),
         LAMBDA sorted :
            With(MergeLeft(HeadN(sorted, topn), movies_full),
                 LAMBDA merged :
                    Returned([k \in DOMAIN merged |-> merged[k].at],
                             FormatAll([k \in DOMAIN merged |-> merged[k].row]))))

keyword_search(meta, movies_full, query, topn) ==
    IF query = << >> THEN Empty
    ELSE With(Strip(Lower(query)),
              LAMBDA q :
                 With(Mask(meta, q),
                      LAMBDA matches :
                         IF matches = << >> THEN Empty
                         ELSE RankAndJoin(matches, movies_full, topn)))

(***************************************************************************)
(* app.py: home (lines 162-192).  The response is [raised, results,        *)
(* used_title, method, calls]: calls lists the helpers in the order the    *)
(* handler called them, each with the topn it was given.                   *)
(***************************************************************************)
TopnGenre == 24
TopnTitle == 12
TopnFallback == 24

Call(fn, topn) == [fn |-> fn, topn |-> topn]

\* the genre test left out
IsGenre_never(q_lower) == FALSE

\* line 173: the query looks exactly like a genre
IsGenre(q_lower) == q_lower \in GENRES

\* lines 178-184: the resolver first, keyword_search when it finds no title
Resolve(g, query) ==
    With(find_best_title(g.indices, g.all_titles, g.lower_to_title, query),
         LAMBDA best :
            IF Truthy(best[1])
            THEN [out |-> title_recommend(g.sim_matrix, g.indices, g.movies_full,
                                          best[1].text, TopnTitle),
                  used_title |-> best[1], method |-> best[2],
                  calls |-> <<Call("find_best_title", 0),
                              Call("title_recommend", TopnTitle)>>]
            ELSE [out |-> keyword_search(g.meta, g.movies_full, query, TopnFallback),
                  used_title |-> None, method |-> best[2],
                  calls |-> <<Call("find_best_title", 0),
                              Call("keyword_search", TopnFallback)>>])

\* g: the globals of the process
home(g, http_method, movie) ==
    IF http_method # "POST"
    THEN [out |-> Empty, used_title |-> None, method |-> "None", calls |-> << >>]
    ELSE With(Strip(movie),
              LAMBDA query :
                 IF IsGenre(Lower(query))
                 THEN [out |-> keyword_search(g.meta, g.movies_full, query, TopnGenre),
                       used_title |-> None, method |-> "genre-fallback",
                       calls |-> <<Call("keyword_search", TopnGenre)>>]
                 ELSE Resolve(g, query))

(***************************************************************************)
(* The artifacts of a finished build, and what app.py loads from them.     *)
(***************************************************************************)
FeatureRows(input) ==
    LET merged == MergeInner(input.movies, input.credits)
    IN  [i \in DOMAIN merged |-> ExtractFeatures(merged[i])]

\* model/movies.pkl as build_data.py writes it: no poster_url column
MoviesPkl(rows) == [has_poster_url |-> FALSE, rows |-> SavedColumns(rows)]

PosterPrefix == <<"w", "3", "4", "2">>

\* lines 32-36 of app.py: poster_url made from poster_path when it is missing
EnsurePosterUrl(pkl) ==
    IF pkl.has_poster_url THEN pkl.rows
    ELSE [i \in DOMAIN pkl.rows |->
            [pkl.rows[i] EXCEPT !.poster_url = PosterPrefix \o pkl.rows[i].poster_path]]

\* the order the app loads them in (lines 22-24)
LoadOrder == <<"sim_matrix", "indices", "movies">>

\* the order build_data.py writes them in (lines 84, 87, 88, 89)
DumpOrder == <<"movies", "sim_matrix", "indices", "movies">>

Absent == [state |-> "absent", data |-> << >>]
Partial(old) == [state |-> "partial", data |-> old.data]
Complete(data) == [state |-> "complete", data |-> data]

BuiltFiles(input) ==
    LET rows == FeatureRows(input)
    IN  [sim_matrix |-> Complete(ComputeSIM(rows)),
         indices |-> Complete(BuildIndices(rows)),
         movies |-> Complete(MoviesPkl(rows)),
         posters_csv |-> Absent]

QueryChars == {"w", "a", "r", "W", " "}
Queries == SeqsUpTo(QueryChars, MaxQueryLen)

(***************************************************************************)
(* State.                                                                  *)
(*   csv     the two input files [movies, credits]                         *)
(*   files   model/sim_matrix.pkl, indices.pkl, movies.pkl: [state, data]  *)
(*   build   the build_data.py process                                     *)
(*   poster  the fetch_posters_no_api.py process                           *)
(*   app     the app.py process and the objects it loaded                  *)
(*   req     the request in progress and its response                      *)
(*   fmt     a call of format_movie_record on a row                        *)
(***************************************************************************)
VARIABLES csv, files, build, poster, app, req, fmt

vars == <<csv, files, build, poster, app, req, fmt>>

BuildIdle == [pc |-> "start", run |-> 1, movies |-> << >>, tfidf_matrix |-> << >>,
              count_matrix |-> << >>, SIM |-> << >>, indices |-> << >>, dump |-> 0]
PosterIdle == [pc |-> "start", movies |-> << >>, idx |-> 0]
AppIdle == [pc |-> "start", at |-> 0, sim_matrix |-> << >>, indices |-> << >>,
            movies_posters |-> << >>, meta |-> << >>, movies_full |-> << >>,
            all_titles |-> << >>, lower_to_title |-> << >>]
ReqIdle == [pc |-> "idle", op |-> "none", http |-> "None", query |-> << >>,
            topn |-> 0, out |-> Empty,
            used_title |-> None, method |-> "None", calls |-> << >>]
FmtIdle == [pc |-> "idle", row |-> << >>, rec |-> << >>]

\* lines 25-45 of app.py: the globals made from the loaded objects
Prepare(sim_matrix, indices, movies_pkl, csv_movies) ==
    With(EnsurePosterUrl(movies_pkl) \o << >>,
         LAMBDA movies_posters :
            With(ReadMeta(csv_movies) \o << >>,
                 LAMBDA meta :
                    With(AllTitles(movies_posters) \o << >>,
                         LAMBDA titles :
                            [pc |-> "ready", at |-> 0, sim_matrix |-> sim_matrix,
                             indices |-> indices, movies_posters |-> movies_posters,
                             meta |-> meta,
                             movies_full |-> MoviesFull(movies_posters, meta),
                             all_titles |-> titles,
                             lower_to_title |-> LowerToTitle(titles)])))

\* the serving process, started after a build of the input files that finished
InitServing ==
    /\ csv \in {in \in Inputs : ~VectorizeRaises(FeatureRows(in))}
    /\ \E f \in {BuiltFiles(csv)} : files = f
    /\ build = [BuildIdle EXCEPT !.pc = "done"]
    /\ poster = PosterIdle
    /\ \E a \in {Prepare(files.sim_matrix.data, files.indices.data,
                          files.movies.data, csv.movies)} : app = a
    /\ req = ReqIdle
    /\ fmt = FmtIdle

\* a request to "/" (lines 162-192): the handler runs to its response
Home(http_method, movie) ==
    /\ app.pc = "ready"
    /\ req.pc = "idle"
    /\ \E r \in {home(app, http_method, movie)} :
          \* an exception in a helper ends the request before the page is rendered
          req' = [pc |-> "done", op |-> "home", http |-> http_method,
                  query |-> movie, topn |-> 0,
                  out |-> r.out,
                  used_title |-> IF r.out.raised THEN None ELSE r.used_title,
                  method |-> IF r.out.raised THEN "None" ELSE r.method,
                  calls |-> r.calls]
    /\ UNCHANGED <<csv, files, build, poster, app, fmt>>

\* a call of find_best_title(query)
FindBestTitle(query) ==
    /\ app.pc = "ready"
    /\ req.pc = "idle"
    /\ \E r \in {find_best_title(app.indices, app.all_titles, app.lower_to_title,
                                   query)} :
          req' = [pc |-> "done", op |-> "find_best_title", http |-> "None",
                  query |-> query, topn |-> 0,
                  out |-> Empty, used_title |-> r[1], method |-> r[2],
                  calls |-> << >>]
    /\ UNCHANGED <<csv, files, build, poster, app, fmt>>

\* a call of title_recommend(best_title, topn)
TitleRecommend(best_title, topn) ==
    /\ app.pc = "ready"
    /\ req.pc = "idle"
    /\ req' = [pc |-> "done", op |-> "title_recommend", http |-> "None",
               query |-> best_title, topn |-> topn,
               out |-> title_recommend(app.sim_matrix, app.indices, app.movies_full,
                                       best_title, topn),
               used_title |-> None, method |-> "None", calls |-> << >>]
    /\ UNCHANGED <<csv, files, build, poster, app, fmt>>

\* a call of keyword_search(q, topn)
KeywordSearch(q, topn) ==
    /\ app.pc = "ready"
    /\ req.pc = "idle"
    /\ req' = [pc |-> "done", op |-> "keyword_search", http |-> "None",
               query |-> q, topn |-> topn,
               out |-> keyword_search(app.meta, app.movies_full, q, topn),
               used_title |-> None, method |-> "None", calls |-> << >>]
    /\ UNCHANGED <<csv, files, build, poster, app, fmt>>

\* the response is delivered; the process waits for the next request
NextRequest ==
    /\ req.pc = "done"
    /\ req' = ReqIdle
    /\ UNCHANGED <<csv, files, build, poster, app, fmt>>

NextServing ==
    \/ \E movie \in Queries : Home("POST", movie)
    \/ Home("GET", << >>)
    \/ \E query \in Queries : FindBestTitle(query)
    \/ NextRequest

Spec == InitServing /\ [][NextServing]_vars

NextCalls ==
    \/ \E t \in {r.title : r \in MoviePool}, topn \in 0..MaxTopN : TitleRecommend(t, topn)
    \/ \E q \in Queries, topn \in 0..MaxTopN : KeywordSearch(q, topn)
    \/ NextRequest

SpecCalls == InitServing /\ [][NextCalls]_vars

(***************************************************************************)
(* build_data.py, one statement group at a time.  A joblib.dump opens its  *)
(* target for writing, which empties it, and the file holds the whole      *)
(* object only when the dump returns: between the two the file exists and  *)
(* is partial.                                                             *)
(***************************************************************************)
NoFiles == [sim_matrix |-> Absent, indices |-> Absent, movies |-> Absent,
            posters_csv |-> Absent]

BuildRunning == build.pc \notin {"start", "done", "failed"}
PosterRunning == poster.pc \notin {"start", "done", "exit", "failed"}

\* lines 10-14
BuildMerge ==
    /\ build.pc = "start"
    /\ ~PosterRunning
    /\ \E m \in {MergeInner(csv.movies, csv.credits) \o << >>} :
          build' = [build EXCEPT !.pc = "features", !.movies = m]
    /\ UNCHANGED <<csv, files, poster, app, req, fmt>>

\* lines 36-53
BuildFeatures ==
    /\ build.pc = "features"
    /\ \E f \in {[i \in DOMAIN build.movies |-> ExtractFeatures(build.movies[i])] \o << >>} :
          build' = [build EXCEPT !.pc = "vectorize", !.movies = f]
    /\ UNCHANGED <<csv, files, poster, app, req, fmt>>

\* lines 56-61: a ValueError ends the script before anything is written
BuildVectorize ==
    /\ build.pc = "vectorize"
    /\ IF VectorizeRaises(build.movies)
       THEN build' = [build EXCEPT !.pc = "failed"]
       ELSE \E o \in {OverviewDocs(build.movies) \o << >>},
               s \in {SoupDocs(build.movies) \o << >>} :
               build' = [build EXCEPT !.pc = "similarity",
                                      !.tfidf_matrix = TfidfMatrix(o),
                                      !.count_matrix = CountMatrix(s)]
    /\ UNCHANGED <<csv, files, poster, app, req, fmt>>

\* lines 64-68
BuildSimilarity ==
    /\ build.pc = "similarity"
    /\ \E sim_overview \in {cosine_similarity(build.tfidf_matrix)},
          sim_meta \in {cosine_similarity(build.count_matrix)} :
          build' = [build EXCEPT !.pc = "index", !.SIM = Fuse(sim_overview, sim_meta)]
    /\ UNCHANGED <<csv, files, poster, app, req, fmt>>

\* lines 71-72
BuildIndex ==
    /\ build.pc = "index"
    /\ build' = [build EXCEPT !.pc = "dump", !.indices = BuildIndices(build.movies),
                              !.dump = 1]
    /\ UNCHANGED <<csv, files, poster, app, req, fmt>>

\* joblib.dump of lines 84, 87, 88, 89 opens its file in place
BuildDumpOpen ==
    /\ build.pc = "dump"
    /\ files' = [files EXCEPT ![DumpOrder[build.dump]] = Partial(@)]
    /\ build' = [build EXCEPT !.pc = "dumping"]
    /\ UNCHANGED <<csv, poster, app, req, fmt>>

\* ... and returns when the object is written
BuildDumpClose ==
    /\ build.pc = "dumping"
    /\ \E f \in {DumpOrder[build.dump]} :
          files' = [files EXCEPT
                      ![f] = Complete(CASE f = "movies" -> MoviesPkl(build.movies)
                                        [] f = "sim_matrix" -> build.SIM
                                        [] f = "indices" -> build.indices)]
    /\ build' = IF build.dump = Len(DumpOrder)
                THEN [build EXCEPT !.pc = "done", !.dump = 0]
                ELSE [build EXCEPT !.pc = "dump", !.dump = @ + 1]
    /\ UNCHANGED <<csv, poster, app, req, fmt>>

\* the script is run again on the same input files
BuildRerun ==
    /\ build.pc \in {"done", "failed"}
    /\ build.run < MaxBuilds
    /\ build' = [BuildIdle EXCEPT !.run = build.run + 1]
    /\ UNCHANGED <<csv, files, poster, app, req, fmt>>

BuildNext ==
    \/ BuildMerge
    \/ BuildFeatures
    \/ BuildVectorize
    \/ BuildSimilarity
    \/ BuildIndex
    \/ BuildDumpOpen
    \/ BuildDumpClose
    \/ BuildRerun

InitBuild ==
    /\ csv \in Inputs
    /\ files = NoFiles
    /\ build = BuildIdle
    /\ poster = PosterIdle
    /\ app = AppIdle
    /\ req = ReqIdle
    /\ fmt = FmtIdle

SpecBuild == InitBuild /\ [][BuildNext]_vars

(***************************************************************************)
(* fetch_posters_no_api.py.  It is a later step of the pipeline: the model *)
(* runs it and build_data.py one after the other, never at the same time.  *)
(***************************************************************************)
PosterUrl == <<"p">>

\* lines 13-14
PosterStart ==
    /\ poster.pc = "start"
    /\ ~BuildRunning
    /\ poster' = [poster EXCEPT !.pc = IF files.movies.state = "absent"
                                        THEN "exit" ELSE "load"]
    /\ UNCHANGED <<csv, files, build, app, req, fmt>>

\* lines 16-27: the table, with an empty poster_url column when it has none
PosterLoad ==
    /\ poster.pc = "load"
    /\ \E pkl \in {files.movies.data} :
          poster' = [pc |-> "loop", idx |-> 1,
                     movies |-> IF pkl.has_poster_url THEN pkl.rows
                                ELSE [i \in DOMAIN pkl.rows |->
                                        [pkl.rows[i] EXCEPT !.poster_url = << >>]]]
    /\ UNCHANGED <<csv, files, build, app, req, fmt>>

\* lines 40-91, one row: a row that has a poster is skipped, and the page of
\* another either gives a poster or does not (status, no image, exception)
PosterRow(found) ==
    /\ poster.pc = "loop"
    /\ poster.idx <= Len(poster.movies)
    /\ poster' = [poster EXCEPT
                    !.idx = @ + 1,
                    !.movies[poster.idx].poster_url =
                        IF @ = << >> /\ found THEN PosterUrl ELSE @]
    /\ UNCHANGED <<csv, files, build, app, req, fmt>>

\* line 96: joblib.dump(movies, MOVIES_PKL) opens the file the app reads
PosterDumpOpen ==
    /\ poster.pc = "loop"
    /\ poster.idx > Len(poster.movies)
    /\ files' = [files EXCEPT !.movies = Partial(@)]
    /\ poster' = [poster EXCEPT !.pc = "dumping"]
    /\ UNCHANGED <<csv, build, app, req, fmt>>

\* lines 96-97: the dump returns and the csv copy is written
PosterDumpClose ==
    /\ poster.pc = "dumping"
    /\ files' = [files EXCEPT
                    !.movies = Complete([has_poster_url |-> TRUE,
                                         rows |-> poster.movies]),
                    !.posters_csv = Complete(poster.movies)]
    /\ poster' = [poster EXCEPT !.pc = "done"]
    /\ UNCHANGED <<csv, build, app, req, fmt>>

PosterNext ==
    \/ PosterStart
    \/ PosterLoad
    \/ \E found \in BOOLEAN : PosterRow(found)
    \/ PosterDumpOpen
    \/ PosterDumpClose

(***************************************************************************)
(* app.py while it starts (lines 17-45).                                   *)
(***************************************************************************)
\* lines 17-19: SystemExit when a file does not exist
AppCheckFiles ==
    /\ app.pc = "start"
    /\ app' = IF \E f \in Range(LoadOrder) : files[f].state = "absent"
              THEN [app EXCEPT !.pc = "exit"]
              ELSE [app EXCEPT !.pc = "load", !.at = 1]
    /\ UNCHANGED <<csv, files, build, poster, req, fmt>>

\* one joblib.load of lines 22-24: what it makes of a file that is being
\* written is not an object of the build (pc "torn")
AppLoad ==
    /\ app.pc = "load"
    /\ \E f \in {LoadOrder[app.at]} :
          IF files[f].state = "partial"
          THEN app' = [app EXCEPT !.pc = "torn"]
          ELSE app' = [app EXCEPT
                         !.pc = IF app.at = Len(LoadOrder) THEN "prepare" ELSE "load",
                         !.at = IF app.at = Len(LoadOrder) THEN 0 ELSE @ + 1,
                         !.sim_matrix = IF f = "sim_matrix" THEN files[f].data ELSE @,
                         !.indices = IF f = "indices" THEN files[f].data ELSE @,
                         !.movies_posters = IF f = "movies" THEN files[f].data ELSE @]
    /\ UNCHANGED <<csv, files, build, poster, req, fmt>>

\* lines 25-45
AppPrepare ==
    /\ app.pc = "prepare"
    /\ \E a \in {Prepare(app.sim_matrix, app.indices, app.movies_posters, csv.movies)} :
          app' = a
    /\ UNCHANGED <<csv, files, build, poster, req, fmt>>

AppNext ==
    \/ AppCheckFiles
    \/ AppLoad
    \/ AppPrepare

NextPublish ==
    \/ BuildNext
    \/ PosterNext
    \/ AppNext

SpecPublish == InitBuild /\ [][NextPublish]_vars

(***************************************************************************)
(* format_movie_record on rows of every shape.                             *)
(***************************************************************************)
Missing == [kind |-> "absent", val |-> 0, text |-> << >>]

\* a row with the columns that are not Missing
RowOf(cells) == [c \in {c \in DOMAIN cells : cells[c] # Missing} |-> cells[c]]

t_19 == <<"1", "9">>

\* more than 200 characters, a space every fourth
LongOverview == [i \in 1..(OverviewCap + 1) |-> IF i % 4 = 0 THEN " " ELSE "a"]

IdCells == {Num(19), NaN, None, Text(<< >>), Text(t_raw), Text(t_19)}
VoteCells == {Missing, Num(725), NaN, None, Text(t_raw), Text(t_19)}
DateCells == {Missing, NaN, Text(<< >>), Text(date99)}
OverviewCells == {Missing, None, NaN, Text(<< >>), Text(t_raw), Text(LongOverview)}

FormatRows ==
    {RowOf([title |-> Text(t_war), poster_url |-> Text(PosterUrl), id |-> i,
            id_meta |-> im, vote_average |-> v, vote_average_meta |-> vm,
            release_date |-> d, release_date_meta |-> dm, overview |-> Text(t_raw)]) :
        i \in IdCells, im \in {Missing, Num(11), NaN, Text(t_raw)},
        v \in VoteCells, vm \in {Missing, Num(650)},
        d \in DateCells, dm \in {Missing, Text(date99)}}
    \cup
    {RowOf([title |-> Text(t_war), poster_url |-> pu, id |-> i,
            id_meta |-> Missing, vote_average |-> Num(725),
            vote_average_meta |-> Missing, release_date |-> Text(date99),
            release_date_meta |-> Missing, overview |-> o]) :
        i \in IdCells \cup {Missing}, o \in OverviewCells,
        pu \in {Missing, None, Text(PosterUrl)}}

InitFormat ==
    /\ csv = [movies |-> << >>, credits |-> << >>]
    /\ files = NoFiles
    /\ build = BuildIdle
    /\ poster = PosterIdle
    /\ app = AppIdle
    /\ req = ReqIdle
    /\ fmt \in {[pc |-> "call", row |-> r, rec |-> << >>] : r \in FormatRows}

\* the call of format_movie_record(row)
Format ==
    /\ fmt.pc = "call"
    /\ \E rec \in {format_movie_record(fmt.row)} :
          fmt' = [fmt EXCEPT !.pc = "done", !.rec = rec]
    /\ UNCHANGED <<csv, files, build, poster, app, req>>

SpecFormat == InitFormat /\ [][Format]_vars

(***************************************************************************)
(* Properties of the serving process.                                      *)
(***************************************************************************)
Done(op) == req.pc = "done" /\ req.op = op

\* the rows the title index gives for a title
OwnRows(title) ==
    {app.indices[k].value : k \in {j \in DOMAIN app.indices : app.indices[j].key = title}}

\* a ratio of at least 0.65 = 13/20
MeetsFloor(r) == 20 * r[1] >= 13 * r[2]

ExactHit(q) == \E k \in DOMAIN app.indices : app.indices[k].key = q
CaseHit(q) == \E i \in DOMAIN app.all_titles : Lower(app.all_titles[i]) = Lower(q)
FuzzyHit(q) == \E i \in DOMAIN app.all_titles : MeetsFloor(Ratio(app.all_titles[i], q))
FuzzyLowerHit(q) ==
    \E i \in DOMAIN app.all_titles :
        MeetsFloor(Ratio(Lower(app.all_titles[i]), Lower(q)))

\* the tag of the first stage that finds a title for the trimmed query q
FirstStage(q) ==
    IF q = << >> THEN "None"
    ELSE IF ExactHit(q) THEN "exact"
    ELSE IF CaseHit(q) THEN "case-insensitive"
    ELSE IF FuzzyHit(q) THEN "fuzzy"
    ELSE IF FuzzyLowerHit(q) THEN "fuzzy-lower"
    ELSE "None"

CalledFns == {req.calls[k].fn : k \in DOMAIN req.calls}

\* C1: title_recommend(title, topN), for a title of the index, returns at most
\* topN records, none of them from the title's own row, in non-increasing order
\* of their fused similarity to the title's row.  (Stated for the calls that
\* return, of a title the index gives one row for.)
C1_RecommendExcludesSelf ==
    (/\ Done("title_recommend")
     /\ Cardinality(OwnRows(req.query)) = 1
     /\ ~req.out.raised) =>
        /\ Len(req.out.rows) <= req.topn
        /\ \A k \in DOMAIN req.out.rows : req.out.rows[k] \notin OwnRows(req.query)
        /\ \A own \in OwnRows(req.query) :
              \A k \in 1..(Len(req.out.rows) - 1) :
                  app.sim_matrix[own][req.out.rows[k]]
                      >= app.sim_matrix[own][req.out.rows[k + 1]]

\* C2: find_best_title returns the outcome of the first of the stages exact,
\* case-insensitive, fuzzy, fuzzy-lower that finds a title; a trimmed query that
\* is a key of the index comes back itself, tagged exact.
C2_CascadeOrder ==
    /\ Done("find_best_title") =>
          /\ req.method = (IF req.query = << >> THEN "None"
                           ELSE FirstStage(Strip(req.query)))
          /\ (req.query # << >> /\ ExactHit(Strip(req.query)))
                => req.used_title = Text(Strip(req.query))
          /\ (req.method = "None") <=> (req.used_title = None)
    /\ (Done("home") /\ req.http = "POST" /\ ~req.out.raised
        /\ "find_best_title" \in CalledFns)
          => req.method = FirstStage(Strip(req.query))

\* the query came back tagged exact although another title matches it without
\* regard to case
W_C2_ExactOverOtherTitle ==
    /\ Done("find_best_title")
    /\ req.method = "exact"
    /\ \E i \in DOMAIN app.all_titles :
          /\ app.all_titles[i] # Strip(req.query)
          /\ Lower(app.all_titles[i]) = Lower(Strip(req.query))
          /\ MeetsFloor(Ratio(app.all_titles[i], Strip(req.query)))

\* no stored title reaches the floor against the trimmed query q
BelowFloor(q) ==
    \A i \in DOMAIN app.all_titles : ~MeetsFloor(Ratio(app.all_titles[i], q))

\* neither as stored nor lowercased
BelowFloorEitherCase(q) ==
    \A i \in DOMAIN app.all_titles :
        /\ ~MeetsFloor(Ratio(app.all_titles[i], q))
        /\ ~MeetsFloor(Ratio(Lower(app.all_titles[i]), Lower(q)))

NoTitleResolved ==
    /\ Done("find_best_title") => (req.used_title = None /\ req.method = "None")
    /\ (Done("home") /\ req.http = "POST")
          => /\ "title_recommend" \notin CalledFns
             /\ req.calls[Len(req.calls)].fn = "keyword_search"

\* C3 as stated: a query whose ratio is below 0.65 against every stored title
\* resolves to no title and goes to keyword search, and the resolver returns no
\* title whose ratio to the query is below 0.65.
C3_FloorAsStored ==
    (Done("find_best_title") \/ (Done("home") /\ req.http = "POST")) =>
        /\ BelowFloor(Strip(req.query)) => NoTitleResolved
        /\ (Done("find_best_title") /\ req.used_title.kind = "text")
              => MeetsFloor(Ratio(req.used_title.text, Strip(req.query)))

\* C3 amended: the floor holds for the ratio of the strings as stored or of the
\* lowercased strings: a query below 0.65 in both against every stored title
\* resolves to no title and goes to keyword search, and every title the resolver
\* returns reaches 0.65 in one of the two.
C3_FloorEitherCase ==
    (Done("find_best_title") \/ (Done("home") /\ req.http = "POST")) =>
        /\ BelowFloorEitherCase(Strip(req.query)) => NoTitleResolved
        /\ (Done("find_best_title") /\ req.used_title.kind = "text")
              => \/ MeetsFloor(Ratio(req.used_title.text, Strip(req.query)))
                 \/ MeetsFloor(Ratio(Lower(req.used_title.text),
                                     Lower(Strip(req.query))))

\* a query of letters, below the floor against every title, went to keyword search
W_C3_BelowFloorFallsThrough ==
    /\ Done("home")
    /\ req.http = "POST"
    /\ Strip(req.query) # << >>
    /\ Lower(Strip(req.query)) \notin GENRES
    /\ BelowFloorEitherCase(Strip(req.query))
    /\ req.calls = <<Call("find_best_title", 0), Call("keyword_search", 24)>>

\* C4: a request whose trimmed, lowercased query is in GENRES calls only
\* keyword_search, with topn 24, and reports method genre-fallback and no
\* title; any other request calls the resolver first and keyword_search only
\* when the resolver finds no title.
C4_GenreRouting ==
    (Done("home") /\ req.http = "POST") =>
        IF Lower(Strip(req.query)) \in GENRES
        THEN /\ req.calls = <<Call("keyword_search", 24)>>
             /\ req.out = keyword_search(app.meta, app.movies_full, Strip(req.query), 24)
             /\ ~req.out.raised => (req.method = "genre-fallback" /\ req.used_title = None)
        ELSE /\ req.calls[1].fn = "find_best_title"
             /\ "keyword_search" \in CalledFns => FirstStage(Strip(req.query)) = "None"
             /\ "keyword_search" \notin CalledFns
                   => /\ FirstStage(Strip(req.query)) # "None"
                      /\ req.calls[2] = Call("title_recommend", 12)

\* a genre query that is also a stored title went to keyword search
W_C4_GenreThatIsATitle ==
    /\ Done("home")
    /\ req.http = "POST"
    /\ Lower(Strip(req.query)) \in GENRES
    /\ ExactHit(Strip(req.query))
    /\ req.calls = <<Call("keyword_search", 24)>>
    /\ ~req.out.raised
    /\ req.method = "genre-fallback"

\* C5: keyword_search(query, topN) returns at most topN records.
C5_KeywordAtMostTopN ==
    Done("keyword_search") => Len(req.out.records) <= req.topn

\* C6: keyword_search returns the empty list for a query that is empty or only
\* whitespace.
C6_BlankQueryEmpty ==
    (Done("keyword_search") /\ Strip(req.query) = << >>) => req.out = Empty

(***************************************************************************)
(* Properties of format_movie_record.                                      *)
(***************************************************************************)
\* a cell no number can be read from
Unusable(cell) ==
    \/ cell.kind \in {"none", "nan"}
    \/ cell.kind = "text" /\ ~IsNumeral(cell.text)

\* every column of cols the row has is unusable
AllUnusable(row, cols) == \A c \in cols \cap DOMAIN row : Unusable(row[c])

\* C7: format_movie_record never raises: whatever the id, rating and
\* release-date columns of the row hold, it returns a record, and a field whose
\* columns are missing, NaN, empty or not numeric is empty (tmdb_link, year) or
\* None (id, rating) in it.
C7_FormatNeverRaises ==
    fmt.pc = "done" =>
        /\ ~fmt.rec.raised
        /\ AllUnusable(fmt.row, {"id", "id_meta"})
              => (fmt.rec.tmdb_link = Text(<< >>) /\ fmt.rec.id = None)
        /\ AllUnusable(fmt.row, {"vote_average", "vote_average_meta"})
              => fmt.rec.rating = None
        /\ (\A c \in {"release_date", "release_date_meta"} \cap DOMAIN fmt.row :
               fmt.row[c].kind # "text" \/ Strip(fmt.row[c].text) = << >>)
              => fmt.rec.year = Text(<< >>)

(***************************************************************************)
(* Properties of the offline build.                                        *)
(***************************************************************************)
Indexed == build.pc \in {"dump", "dumping", "done"}
Fused == build.pc \in {"index", "dump", "dumping", "done"}

\* the rows the built index gives for a title
IndexRows(title) ==
    {build.indices[k].value :
        k \in {j \in DOMAIN build.indices : build.indices[j].key = title}}

FirstRowOf(title) ==
    CHOOSE i \in DOMAIN build.movies :
        /\ build.movies[i].title = title
        /\ \A j \in 1..(i - 1) : build.movies[j].title # title

\* C8: the index the build makes gives every title of the indexed rows exactly
\* one row, the row of the title's first occurrence.
C8_TitleToOneRow ==
    Indexed =>
        \A i \in DOMAIN build.movies :
            IndexRows(build.movies[i].title) = {FirstRowOf(build.movies[i].title)}

\* a row of a term matrix with a term in it
HasTerm(row) == \E t \in DOMAIN row : row[t] # 0

MatrixMax(m) ==
    CHOOSE x \in {m[i][j] : i \in DOMAIN m, j \in DOMAIN m} :
        \A i \in DOMAIN m, j \in DOMAIN m : x >= m[i][j]

C10_NeverLoadsPartial == app.pc # "torn"
=============================================================================
